---------------------------- MODULE Spec2Model ----------------------------
(***************************************************************************)
(* Per-auction serialized bidding core of the auction backend:             *)
(*   db.js              AsyncLock, InMemoryDB (registry + lock per id)     *)
(*   routes/auctions.js POST /auctions/:id/bid                             *)
(*   server.js          POST /auctions/:id/notify                          *)
(*                                                                         *)
(* Scheduling.  Node runs one piece of synchronous code at a time; control *)
(* changes hands only at an await.  Every action below is one such piece:  *)
(* a handler from its start to its first await, or the continuation of an  *)
(* await to the next one.  The order in which ready continuations and new  *)
(* requests run is left open, which covers every order the event loop can  *)
(* produce.                                                                *)
(*                                                                         *)
(* Requests are numbered by arrival: request r is the r-th handler         *)
(* invocation to start.                                                    *)
(***************************************************************************)
EXTENDS Integers, Sequences, FiniteSets, TLC

\* ------------------------------------------------------------------ bounds
\* Number of requests (bid or notify) that arrive in one run.
NumReqs == 3

Reqs == 1..NumReqs

\* ------------------------------------------------------------------ inputs
\* Route parameter :id.  "1" and "2" are the seeded auctions, "99" is absent.
Ids == {"1", "2", "99"}

\* A JSON value of req.body.amount: its typeof, whether a number is finite,
\* and its numeric value (n is meaningful for finite numbers and is the
\* digits of a string).
Num(n) == [type |-> "number", cls |-> "finite", n |-> n]
NaNValue == [type |-> "number", cls |-> "NaN", n |-> 0]
StrValue(n) == [type |-> "string", cls |-> "finite", n |-> n]

\* The bid requests that arrive: <<:id, JWT "sub", body.amount, fault>>.
\* alice owns "1" (seeded at 100), bob owns "2" (seeded at 50).  fault says
\* that the request's callback will fail with an unexpected error.
BidInputs ==
    \* on "1": the owner, with a good and with a bad amount
    ({"1"} \X {"alice"} \X {Num(120), Num(0)} \X {FALSE})
    \* on "1": a bidder at the current bid, above it, and with bad amounts
    \cup ({"1"} \X {"bob"} \X {Num(100), Num(110), Num(120),
                               NaNValue, StrValue(120)} \X {FALSE})
    \* on "1": a second bidder, at an amount the first also offers
    \cup ({"1"} \X {"charlie"} \X {Num(120)} \X {FALSE})
    \* on "2": the owner and a bidder
    \cup ({"2"} \X {"bob", "alice"} \X {Num(100)} \X {FALSE})
    \* on the absent "99": a good and a bad amount
    \cup ({"99"} \X {"charlie"} \X {Num(110), Num(0)} \X {FALSE})
    \* callbacks that fail
    \cup ({"1"} \X {"bob"} \X {Num(110)} \X {TRUE})
    \cup ({"2"} \X {"alice"} \X {Num(100)} \X {TRUE})

\* The notify requests that arrive: <<:id, certificate test passes, fault>>.
NotifyInputs ==
    (Ids \X {TRUE} \X {FALSE})
    \cup ({"1"} \X {FALSE} \X {FALSE})
    \cup ({"1"} \X {TRUE} \X {TRUE})

\* ------------------------------------------------------------------- state
VARIABLES
    auctions,   \* db.auctions : Map key -> auction aggregate
    locks,      \* db.locks    : Map key -> AsyncLock, held as the lock's _p
    resolved,   \* the requests whose `next` promise has been resolved
    releases,   \* per request, how many times resolveNext() was called
    req,        \* per request: inputs, position in its handler, response
    arrived     \* number of requests that have started

vars == <<auctions, locks, resolved, releases, req, arrived>>

\* AsyncLock constructor: this._p = Promise.resolve().  Promise 0 is that
\* already-resolved promise; promise r > 0 is the `next` promise of request r.
InitP == 0

IsResolved(p) == p = InitP \/ p \in resolved

\* How a promise has settled: not yet, fulfilled with a value, or rejected
\* with an error.  The values are `res` (what res.status().json() returns) and
\* undefined; the errors are the TypeError of a write to null and the error
\* of an internal fault.
Pending == [kind |-> "none", v |-> "none"]
Returned(v) == [kind |-> "value", v |-> v]
Thrown(e) == [kind |-> "error", v |-> e]

\* A request that has not arrived yet.
\*   kind, id, bidderId, amount  the inputs of the handler
\*   pc                          idle, waiting (at `await prev`), running (the
\*                               callback has run, run() is at `await fn()`),
\*                               released (after the finally), done; and for
\*                               a callback that calls withAuctionLock
\*                               itself: nested (the callback awaits its
\*                               inner call, whose run() is at `await
\*                               prev`), inner (the inner callback has run)
\*   prev                        the promise run() awaits
\*   status, sent                the last HTTP status sent, and how many
\*   threw                       whether the callback ended by throwing
\*   fnOut                       how the callback's promise settled
\*   out                         how the promise of withAuctionLock settled
\*   fault                       whether the callback is to hit a fault
\* and, recorded for the properties only (no action reads them):
\*   innerId, innerPrev          for a callback that calls withAuctionLock
\*                               itself: the key of that inner call ("none"
\*                               when it makes none) and the promise the
\*                               inner run() awaits
\*   locked                      whether the handler called withAuctionLock
\*   given                       the id as a direct caller passed it
\*   seenStatus                  status of the aggregate when the request
\*                               was decided ("none": no aggregate, or not
\*                               decided yet)
\*   seenBid                     currentBid of the aggregate when the
\*                               callback ran
Idle == [pc |-> "idle", kind |-> "none", id |-> "none", bidderId |-> "none",
         amount |-> Num(0), fault |-> FALSE, prev |-> InitP, locked |-> FALSE,
         status |-> 0, sent |-> 0,
         seenBid |-> 0, seenStatus |-> "none", threw |-> FALSE,
         fnOut |-> Pending, out |-> Pending,
         innerId |-> "none", innerPrev |-> InitP,
         given |-> [type |-> "undefined", n |-> 0, s |-> ""]]

\* A handler that has returned.
Done(q) == [q EXCEPT !.pc = "done"]

\* (variant: insertAuction without the locks.has test)
insertAuctionNewLock(as, ls, a) ==
    [auctions |-> [k \in DOMAIN as \cup {a.id} |-> IF k = a.id THEN a ELSE as[k]],
     locks    |-> [k \in DOMAIN ls \cup {a.id} |->
                      IF k = a.id THEN InitP ELSE ls[k]]]

\* insertAuction: auctions.set(String(id), {...auction}); a lock is created
\* unless one exists.
insertAuction(as, ls, a) ==
    [auctions |-> [k \in DOMAIN as \cup {a.id} |-> IF k = a.id THEN a ELSE as[k]],
     locks    |-> [k \in DOMAIN ls \cup {a.id} |->
                      IF k \in DOMAIN ls THEN ls[k] ELSE InitP]]

Seed1 == [id |-> "1", title |-> "Vintage Guitar", ownerId |-> "alice",
          status |-> "active", currentBid |-> 100, currentBidderId |-> "null",
          bids |-> <<>>]
Seed2 == [id |-> "2", title |-> "Rare Book", ownerId |-> "bob",
          status |-> "active", currentBid |-> 50, currentBidderId |-> "null",
          bids |-> <<>>]

\* InMemoryDB constructor: two empty maps, then the two seed insertions.
InMemoryDB ==
    LET e  == [k \in {} |-> 0]
        d1 == insertAuction(e, e, Seed1)
    IN  insertAuction(d1.auctions, d1.locks, Seed2)

Init ==
    /\ auctions = InMemoryDB.auctions
    /\ locks = InMemoryDB.locks
    /\ resolved = {}
    /\ releases = [r \in Reqs |-> 0]
    /\ req = [r \in Reqs |-> Idle]
    /\ arrived = 0


\* ---------------------------------------------------------------- registry
\* findAuctionById(id): this.auctions.get(String(id)) || null.  The handlers
\* only test the result for null and then use it, so the lookup is given as
\* the presence test and the aggregate.
HasAuction(id) == id \in DOMAIN auctions

\* (variant: a lookup that hands out the aggregate as it was first stored)
findAuctionByIdStale(id) == InMemoryDB.auctions[id]

findAuctionById(id) == auctions[id]

\* -------------------------------------------------------------- AsyncLock
\* withAuctionLock, first half: this.locks.get(String(id)), and when there is
\* none a new AsyncLock is stored under the key.
GetOrCreateLock(ls, id) ==
    IF id \in DOMAIN ls
    THEN ls
    ELSE [k \in DOMAIN ls \cup {id} |-> IF k = id THEN InitP ELSE ls[k]]

\* (variant: one chain for the whole database instead of one per key)
RunPrevGlobal(ls, id) ==
    CHOOSE p \in {ls[k] : k \in DOMAIN ls} : \A k \in DOMAIN ls : ls[k] <= p

\* (variant: `const prev = this._p` read after `this._p = next`, so that a
\* call awaits its own promise; the call being made is number arrived + 1)
RunPrevOwn(ls, id) == arrived + 1

\* AsyncLock.run, `const prev = this._p`.
RunPrev(ls, id) == ls[id]

\* (variant: run() that leaves this._p as it was)
RunSetPSkip(ls, id, r) == ls

\* AsyncLock.run, `this._p = next`, next being the promise of request r.
RunSetP(ls, id, r) == [ls EXCEPT ![id] = r]

\* (variant: run() without the `await prev`)
CanResumeAny(r) == TRUE

\* AsyncLock.run, `await prev`: the continuation is ready once prev is
\* resolved.
CanResume(r) == IsResolved(req[r].prev)

\* withAuctionLock(id, fn) up to the `await prev` of run: synchronous, so it
\* is part of the action of the handler that calls it.
Acquire(r, id, fields) ==
    LET ls == GetOrCreateLock(locks, id) IN
    /\ locks' = RunSetP(ls, id, r)
    /\ req' = [req EXCEPT ![r] =
                  [fields EXCEPT !.pc = "waiting",
                                 !.prev = RunPrev(ls, id),
                                 !.locked = TRUE]]

\* res.status(code).json(body): one more response on this request.
Respond(q, code) == [q EXCEPT !.status = code, !.sent = @ + 1]

\* The record of the status the aggregate of q.id shows now, and of its
\* currentBid.
ObserveStatus(q) ==
    [q EXCEPT !.seenStatus = IF HasAuction(q.id)
                             THEN findAuctionById(q.id).status ELSE "none"]

Observe(q) ==
    [ObserveStatus(q) EXCEPT !.seenBid = IF HasAuction(q.id)
                                         THEN findAuctionById(q.id).currentBid
                                         ELSE 0]

\* ------------------------------------------------------------- bid route
\* routes/auctions.js line 22: the amount is rejected unless it is a finite
\* positive number.
InvalidAmount(amount) ==
    \/ amount.type # "number"
    \/ amount.cls # "finite"
    \/ amount.n <= 0

\* (variant: `amount < auction.currentBid` for `<=`)
BidCheckLt(id, bidderId, amount) ==
    IF ~HasAuction(id) THEN 404
    ELSE IF findAuctionById(id).status # "active" THEN 409
    ELSE IF findAuctionById(id).ownerId = bidderId THEN 403
    ELSE IF amount.n < findAuctionById(id).currentBid THEN 409
    ELSE 201

\* (variant: the owner test moved behind the amount test)
BidCheckOwnerAfterAmount(id, bidderId, amount) ==
    IF ~HasAuction(id) THEN 404
    ELSE IF findAuctionById(id).status # "active" THEN 409
    ELSE IF amount.n <= findAuctionById(id).currentBid THEN 409
    ELSE IF findAuctionById(id).ownerId = bidderId THEN 403
    ELSE 201

\* (variant: the owner test moved before the status test)
BidCheckOwnerFirst(id, bidderId, amount) ==
    IF ~HasAuction(id) THEN 404
    ELSE IF findAuctionById(id).ownerId = bidderId THEN 403
    ELSE IF findAuctionById(id).status # "active" THEN 409
    ELSE IF amount.n <= findAuctionById(id).currentBid THEN 409
    ELSE 201

\* (variant: no status test)
BidCheckNoStatus(id, bidderId, amount) ==
    IF ~HasAuction(id) THEN 404
    ELSE IF findAuctionById(id).ownerId = bidderId THEN 403
    ELSE IF amount.n <= findAuctionById(id).currentBid THEN 409
    ELSE 201

\* (variant: no owner test)
BidCheckNoOwner(id, bidderId, amount) ==
    IF ~HasAuction(id) THEN 404
    ELSE IF findAuctionById(id).status # "active" THEN 409
    ELSE IF amount.n <= findAuctionById(id).currentBid THEN 409
    ELSE 201

\* (variant: the amount test the wrong way round, `amount >= currentBid`)
BidCheckGe(id, bidderId, amount) ==
    IF ~HasAuction(id) THEN 404
    ELSE IF findAuctionById(id).status # "active" THEN 409
    ELSE IF findAuctionById(id).ownerId = bidderId THEN 403
    ELSE IF amount.n >= findAuctionById(id).currentBid THEN 409
    ELSE 201

\* The checks of the callback, in the order of the code; 201 when all pass.
BidCheck(id, bidderId, amount) ==
    IF ~HasAuction(id) THEN 404
    ELSE IF findAuctionById(id).status # "active" THEN 409
    ELSE IF findAuctionById(id).ownerId = bidderId THEN 403
    ELSE IF amount.n <= findAuctionById(id).currentBid THEN 409
    ELSE 201

\* (variant: the update without the write of currentBid)
ApplyBidKeepCurrent(a, bidderId, amount) ==
    [a EXCEPT !.currentBidderId = bidderId,
              !.bids = Append(@, [amount |-> amount.n, bidderId |-> bidderId])]

\* (variant: the update without the bids.push)
ApplyBidNoPush(a, bidderId, amount) ==
    [a EXCEPT !.currentBid = amount.n, !.currentBidderId = bidderId]

\* The update applied under the lock.  (The bid's ts, Date.now(), is read by
\* no handler and is left out.)
ApplyBid(a, bidderId, amount) ==
    [a EXCEPT !.currentBid = amount.n,
              !.currentBidderId = bidderId,
              !.bids = Append(@, [amount |-> amount.n, bidderId |-> bidderId])]

\* (variant: the three writes placed before the `amount <= currentBid` test)
BidEffectEarly(as, q, code) ==
    IF code = 201 \/ (code = 409 /\ as[q.id].status = "active")
    THEN [as EXCEPT ![q.id] = ApplyBid(@, q.bidderId, q.amount)]
    ELSE as

\* The registry after the bid callback of q: every rejection returns before
\* the writes, so it is changed only when all checks passed.
BidEffect(as, q, code) ==
    IF code = 201
    THEN [as EXCEPT ![q.id] = ApplyBid(@, q.bidderId, q.amount)]
    ELSE as

\* What the bid callback returns: the rejections are `return res...json()`,
\* the success path falls off the end of the function.
BidReturn(code) == IF code = 201 THEN Returned("undefined") ELSE Returned("res")

\* POST /auctions/:id/bid, from the start of the handler to the await of
\* withAuctionLock.
BidRequest(r, id, bidderId, amount, fault) ==
    /\ r = arrived + 1
    /\ arrived' = r
    /\ LET q == [Idle EXCEPT !.kind = "bid", !.id = id, !.fault = fault,
                             !.bidderId = bidderId, !.amount = amount] IN
       IF InvalidAmount(amount)
       THEN /\ req' = [req EXCEPT ![r] = Done(Respond(ObserveStatus(q), 400))]
            /\ UNCHANGED locks
       ELSE Acquire(r, id, q)
    /\ UNCHANGED <<auctions, resolved, releases>>

\* The bid callback, run in one piece when `await prev` resumes: fresh
\* lookup, the checks, and on success the update and the 201.
EnterBid(r) ==
    /\ req[r].pc = "waiting"
    /\ req[r].kind = "bid"
    /\ ~req[r].fault
    /\ CanResume(r)
    /\ LET q    == req[r]
           code == BidCheck(q.id, q.bidderId, q.amount)
           seen == [Observe(q) EXCEPT !.pc = "running"]
       IN /\ req' = [req EXCEPT ![r] =
                         [Respond(seen, code) EXCEPT !.fnOut = BidReturn(code)]]
          /\ auctions' = BidEffect(auctions, q, code)
    /\ UNCHANGED <<locks, resolved, releases, arrived>>

\* ---------------------------------------------------------- notify route
\* POST /auctions/:id/notify, from the start of the handler to the await of
\* withAuctionLock.  sslOk is the outcome of the simulated certificate test
\* (sslConfig.enabled and the clock against certValidUntil).
NotifyRequest(r, id, sslOk, fault) ==
    /\ r = arrived + 1
    /\ arrived' = r
    /\ LET q == [Idle EXCEPT !.kind = "notify", !.id = id, !.fault = fault] IN
       IF ~sslOk
       THEN /\ req' = [req EXCEPT ![r] = Done(Respond(q, 503))]
            /\ UNCHANGED locks
       ELSE IF ~HasAuction(id)
       THEN /\ req' = [req EXCEPT ![r] = Done(Respond(q, 404))]
            /\ UNCHANGED locks
       ELSE Acquire(r, id, q)
    /\ UNCHANGED <<auctions, resolved, releases>>

\* (variant: a notify that switches the status back when it is notified)
NotifiedToggle(a) ==
    [a EXCEPT !.status = IF @ = "notified" THEN "active" ELSE "notified"]

\* a.status = 'notified'
Notified(a) == [a EXCEPT !.status = "notified"]

\* The notify callback: a.status = 'notified' on the fresh lookup; on a null
\* lookup the assignment throws.
EnterNotify(r) ==
    /\ req[r].pc = "waiting"
    /\ req[r].kind = "notify"
    /\ ~req[r].fault
    /\ CanResume(r)
    /\ LET q == req[r] IN
       IF HasAuction(q.id)
       THEN /\ auctions' = [auctions EXCEPT ![q.id] = Notified(@)]
            /\ req' = [req EXCEPT ![r] =
                           [Observe(q) EXCEPT !.pc = "running",
                                              !.fnOut = Returned("undefined")]]
       ELSE /\ auctions' = auctions
            /\ req' = [req EXCEPT ![r].pc = "running", ![r].threw = TRUE,
                                  ![r].fnOut = Thrown("TypeError")]
    /\ UNCHANGED <<locks, resolved, releases, arrived>>

\* A callback that fails with an unexpected error before it does anything
\* (an internal fault): fn() rejects, nothing is written, nothing is sent.
EnterFault(r) ==
    /\ req[r].pc = "waiting"
    /\ req[r].fault
    /\ CanResume(r)
    /\ req' = [req EXCEPT ![r].pc = "running", ![r].threw = TRUE,
                          ![r].fnOut = Thrown("fault")]
    /\ UNCHANGED <<auctions, locks, resolved, releases, arrived>>

\* (variant: resolveNext() after the await instead of in a finally)
ReleaseOnReturn(q) == ~q.threw

\* AsyncLock.run, `finally { resolveNext(); }`: runs once fn()'s promise has
\* settled, whether it fulfilled or rejected.
ReleaseOn(q) == TRUE

\* (variant: run() with a catch that swallows the error of fn())
RunOutcomeSwallow(o) == IF o.kind = "error" THEN Returned("undefined") ELSE o

\* AsyncLock.run, `return await fn()`, and withAuctionLock, `return
\* lock.run(...)`: the promise of run() settles as the promise of fn() did,
\* and the promise of withAuctionLock adopts it.
RunOutcome(o) == o

\* (variant: the bid handler without its .catch)
HandlerEndsNoCatch(q) == q.kind = "bid"

\* Whether nothing is left of the handler once run() has returned: the bid
\* handler ends at its await unless the .catch has an error to handle, and
\* a direct caller of the db module does nothing with the result.
HandlerEnds(q) ==
    \/ q.kind = "bid" /\ q.out.kind # "error"
    \/ q.kind = "call"

Release(r) ==
    /\ req[r].pc = "running"
    /\ IF ReleaseOn(req[r])
       THEN /\ resolved' = resolved \cup {r}
            /\ releases' = [releases EXCEPT ![r] = @ + 1]
       ELSE UNCHANGED <<resolved, releases>>
    /\ LET q == [req[r] EXCEPT !.out = RunOutcome(req[r].fnOut)] IN
       req' = [req EXCEPT ![r] = IF HandlerEnds(q)
                                 THEN Done(q)
                                 ELSE [q EXCEPT !.pc = "released"]]
    /\ UNCHANGED <<auctions, locks, arrived>>

\* The handler after `await db.withAuctionLock(...)`.
\*   bid:    .catch -> 500 unless a response was already sent.
\*   notify: 200, or 500 from the catch block when the callback threw.
Finish(r) ==
    /\ req[r].pc = "released"
    /\ LET q == req[r]
           a == IF q.kind = "bid"
                THEN IF q.out.kind = "error" /\ q.sent = 0
                     THEN Respond(q, 500) ELSE q
                ELSE IF q.out.kind = "error"
                     THEN Respond(q, 500) ELSE Respond(q, 200)
       IN req' = [req EXCEPT ![r] = Done(a)]
    /\ UNCHANGED <<auctions, locks, resolved, releases, arrived>>

Next ==
    \/ \E r \in Reqs, i \in BidInputs :
          BidRequest(r, i[1], i[2], i[3], i[4])
    \/ \E r \in Reqs, i \in NotifyInputs : NotifyRequest(r, i[1], i[2], i[3])
    \/ \E r \in Reqs : EnterBid(r)
    \/ \E r \in Reqs : EnterNotify(r)
    \/ \E r \in Reqs : EnterFault(r)
    \/ \E r \in Reqs : Release(r)
    \/ \E r \in Reqs : Finish(r)

Spec == Init /\ [][Next]_vars

\* ----------------------------------------------- the db module, called directly
\* module.exports = { db }: besides the two routes, any code of the process
\* can call db.withAuctionLock and db.insertAuction, with an id of any type
\* and any callback.  The callers below are the ones the contract of the lock
\* speaks of: an id given as a number, a callback that takes a lock itself,
\* and an auction inserted while the server runs.

\* An id as a caller passes it: a JS number or a JS string.
NumId(n) == [type |-> "number", n |-> n, s |-> ""]
StrId(s) == [type |-> "string", n |-> 0, s |-> s]
NoId == [type |-> "undefined", n |-> 0, s |-> ""]

\* (variant: the maps keyed by the id as given; a number is then a key of its
\* own, distinct from every string)
StringAsGiven(v) == IF v.type = "string" THEN v.s ELSE "number"

\* String(id): a string is itself, a number is its decimal text (given here
\* for the numbers that occur).
String(v) ==
    IF v.type = "string" THEN v.s
    ELSE CASE v.n = 1 -> "1"
           [] v.n = 2 -> "2"
           [] v.n = 99 -> "99"

\* The promise `next` of the inner run() of request r.
InnerP(r) == NumReqs + r

\* The bid requests that arrive next to the direct calls.
DbBidInputs ==
    {<<"1", "bob", Num(110), FALSE>>,
     <<"2", "alice", Num(100), FALSE>>,
     <<"99", "charlie", Num(110), FALSE>>}

\* The direct calls db.withAuctionLock(id, fn): <<id, inner>>, where fn
\* returns at once when inner is NoId and otherwise is
\* `async () => { await db.withAuctionLock(inner, async () => {}) }`.
CallInputs ==
    {<<NumId(1), NoId>>,             \* auction 1 by number
     <<NumId(99), NoId>>,            \* an id with no lock yet, by number
     <<StrId("1"), StrId("1")>>,     \* re-entrant on auction 1
     <<StrId("2"), StrId("99")>>}    \* holds 2, then takes 99

\* The auction a direct caller inserts: id 99, which is not seeded.
InsertInputs ==
    {[id |-> NumId(99), title |-> "Old Map", ownerId |-> "alice",
      status |-> "active", currentBid |-> 10, currentBidderId |-> "null",
      bids |-> <<>>]}

\* db.withAuctionLock(id, fn) called directly, up to the `await prev`.
CallRequest(r, id, inner) ==
    /\ r = arrived + 1
    /\ arrived' = r
    /\ LET q == [Idle EXCEPT !.kind = "call", !.id = String(id),
                             !.given = id,
                             !.innerId = IF inner = NoId
                                         THEN "none" ELSE String(inner)]
       IN Acquire(r, String(id), q)
    /\ UNCHANGED <<auctions, resolved, releases>>

\* The callback of a direct call starts: it returns at once, or it calls
\* withAuctionLock(inner, ...) (synchronous up to the inner `await prev`) and
\* awaits the result.
EnterCall(r) ==
    /\ req[r].pc = "waiting"
    /\ req[r].kind = "call"
    /\ CanResume(r)
    /\ IF req[r].innerId = "none"
       THEN /\ req' = [req EXCEPT ![r].pc = "running",
                                  ![r].fnOut = Returned("undefined")]
            /\ UNCHANGED locks
       ELSE LET ls == GetOrCreateLock(locks, req[r].innerId) IN
            /\ locks' = RunSetP(ls, req[r].innerId, InnerP(r))
            /\ req' = [req EXCEPT ![r].pc = "nested",
                                  ![r].innerPrev = RunPrev(ls, req[r].innerId)]
    /\ UNCHANGED <<auctions, resolved, releases, arrived>>

\* (variant: a re-entrant lock, which lets the call through when the promise
\* it awaits is the one of its own caller)
CanResumeInnerOwn(r) ==
    IsResolved(req[r].innerPrev) \/ req[r].innerPrev = r

\* AsyncLock.run of the inner call, `await prev`.
CanResumeInner(r) == IsResolved(req[r].innerPrev)

\* The inner callback runs (it does nothing).
EnterInner(r) ==
    /\ req[r].pc = "nested"
    /\ CanResumeInner(r)
    /\ req' = [req EXCEPT ![r].pc = "inner"]
    /\ UNCHANGED <<auctions, locks, resolved, releases, arrived>>

\* The finally of the inner run(); the outer callback's await then returns
\* and the outer callback with it.
ReleaseInner(r) ==
    /\ req[r].pc = "inner"
    /\ resolved' = resolved \cup {InnerP(r)}
    /\ req' = [req EXCEPT ![r].pc = "running",
                          ![r].fnOut = Returned("undefined")]
    /\ UNCHANGED <<auctions, locks, releases, arrived>>

\* db.insertAuction(auction) called directly: the aggregate is stored under
\* String(auction.id), and a lock is created unless the key has one.
InsertRequest(r, a) ==
    /\ r = arrived + 1
    /\ arrived' = r
    /\ LET d == insertAuction(auctions, locks, [a EXCEPT !.id = String(a.id)])
       IN /\ auctions' = d.auctions
          /\ locks' = d.locks
    /\ req' = [req EXCEPT ![r] =
                  Done([Idle EXCEPT !.kind = "insert", !.id = String(a.id)])]
    /\ UNCHANGED <<resolved, releases>>

DbNext ==
    \/ \E r \in Reqs, i \in DbBidInputs :
          BidRequest(r, i[1], i[2], i[3], i[4])
    \/ \E r \in Reqs, i \in CallInputs : CallRequest(r, i[1], i[2])
    \/ \E r \in Reqs, a \in InsertInputs : InsertRequest(r, a)
    \/ \E r \in Reqs : EnterBid(r)
    \/ \E r \in Reqs : EnterCall(r)
    \/ \E r \in Reqs : EnterInner(r)
    \/ \E r \in Reqs : ReleaseInner(r)
    \/ \E r \in Reqs : Release(r)

DbProceed(r) ==
    EnterBid(r) \/ EnterCall(r) \/ EnterInner(r) \/ ReleaseInner(r)
        \/ Release(r)

\* The db module under the bid route and the direct callers, with the event
\* loop's fairness.
DbSpec == Init /\ [][DbNext]_vars /\ \A r \in Reqs : WF_vars(DbProceed(r))

\* The event loop runs every continuation that is ready: a request whose
\* next piece stays enabled is eventually given it.  (The arrival of a
\* request is not forced.)
Proceed(r) ==
    EnterBid(r) \/ EnterNotify(r) \/ EnterFault(r) \/ Release(r) \/ Finish(r)

\* The requests that arrive in the runs checked for progress, all of which
\* take a lock: on auction "1" a bidder, a second bidder, the owner and a
\* bid whose callback fails, a bid on "2", one on the absent "99"; and on
\* "1" a notify and a notify whose callback fails.
FairBidInputs ==
    {<<"1", "bob", Num(110), FALSE>>,
     <<"1", "charlie", Num(120), FALSE>>,
     <<"1", "alice", Num(120), FALSE>>,
     <<"1", "bob", Num(110), TRUE>>,
     <<"2", "alice", Num(100), FALSE>>,
     <<"99", "charlie", Num(110), FALSE>>}

FairNotifyInputs ==
    {<<"1", TRUE, FALSE>>, <<"1", TRUE, TRUE>>}

FairNext ==
    \/ \E r \in Reqs, i \in FairBidInputs :
          BidRequest(r, i[1], i[2], i[3], i[4])
    \/ \E r \in Reqs, i \in FairNotifyInputs :
          NotifyRequest(r, i[1], i[2], i[3])
    \/ \E r \in Reqs : EnterBid(r)
    \/ \E r \in Reqs : EnterNotify(r)
    \/ \E r \in Reqs : EnterFault(r)
    \/ \E r \in Reqs : Release(r)
    \/ \E r \in Reqs : Finish(r)

FairSpec == Init /\ [][FairNext]_vars /\ \A r \in Reqs : WF_vars(Proceed(r))

\* ------------------------------------------------------------- properties
\* The callback of r has started and run() has not released the lock yet.
InCritical(r) == req[r].pc = "running"

\* The callback of r has been started (it holds or has held the lock).
Entered(r) == req[r].pc \in {"running", "released", "done"} /\ req[r].locked

\* run() of r is past its finally block.
PastFinally(r) == req[r].pc \in {"released", "done"} /\ req[r].locked

\* r and q are withAuctionLock calls for the same key.
SameLock(r, q) == req[r].locked /\ req[q].locked /\ req[r].id = req[q].id

\* The seed value of an auction: its currentBid at construction.
SeedBid(k) == InMemoryDB.auctions[k].currentBid

\* C1: mutual exclusion per auction.  At no time are two callbacks given to
\* withAuctionLock for the same id both between their start and their lock
\* release.
C1_MutualExclusion ==
    \A r, q \in Reqs :
        (r # q /\ InCritical(r) /\ InCritical(q)) => req[r].id # req[q].id

\* A callback holds the lock of an auction while two more calls for the same
\* auction wait behind it.
C1_Witness ==
    \E r, q, t \in Reqs :
        /\ q # t
        /\ InCritical(r) /\ req[q].pc = "waiting" /\ req[t].pc = "waiting"
        /\ SameLock(r, q) /\ SameLock(r, t)

\* C2: lock release guarantee.  resolveNext() is never called twice for one
\* run(); once a callback has finished and run() is past its finally block -
\* whatever the callback did: accepted, rejected with 404, 409 or 403,
\* notified, or threw - the lock was released exactly once, and the call
\* queued directly behind it is able to start its callback.
C2_LockReleased ==
    \A r \in Reqs :
        /\ releases[r] <= 1
        /\ ~PastFinally(r) => releases[r] = 0
        /\ PastFinally(r) =>
              /\ releases[r] = 1
              /\ \A q \in Reqs :
                    (req[q].pc = "waiting" /\ req[q].prev = r) =>
                        ENABLED (EnterBid(q) \/ EnterNotify(q) \/ EnterFault(q))

\* A callback threw, and the call that was queued behind it has since run
\* its own callback.
C2_Witness ==
    \E r, q \in Reqs :
        /\ req[r].threw /\ PastFinally(r)
        /\ req[q].prev = r /\ Entered(q) /\ ~req[q].threw

\* C3: FIFO admission.  Requests are numbered by arrival, and a handler calls
\* withAuctionLock in the same step in which it starts; so for one id, no call
\* has started its callback while a call made earlier is still waiting.
C3_Fifo ==
    \A r, q \in Reqs :
        (r < q /\ SameLock(r, q) /\ Entered(q)) => req[r].pc # "waiting"

\* Three calls for one id: the first is finished, the second is in its
\* critical section, the third still waits.
C3_Witness ==
    \E r, q, t \in Reqs :
        /\ r < q /\ q < t /\ SameLock(r, q) /\ SameLock(q, t)
        /\ req[r].pc = "done" /\ InCritical(q) /\ req[t].pc = "waiting"

\* C4: monotonicity.  The amounts of every auction's bids are strictly
\* increasing in insertion order, the first one is above the seed value, and
\* every accepted bid was above the currentBid its callback found.
C4_Monotonic ==
    /\ \A k \in DOMAIN auctions :
          LET b == auctions[k].bids IN
          /\ \A i \in 1..Len(b) - 1 : b[i].amount < b[i + 1].amount
          /\ Len(b) > 0 => b[1].amount > SeedBid(k)
    /\ \A r \in Reqs :
          (req[r].kind = "bid" /\ req[r].status = 201) =>
              req[r].amount.n > req[r].seenBid

\* An auction holds two accepted bids, and a third bid, at the amount of the
\* second, was turned away with 409.
C4_Witness ==
    \E k \in DOMAIN auctions, r \in Reqs :
        /\ Len(auctions[k].bids) = 2
        /\ req[r].kind = "bid" /\ req[r].id = k /\ req[r].status = 409
        /\ req[r].amount.n = req[r].seenBid
        /\ req[r].seenBid = auctions[k].bids[2].amount

\* C5: while no critical section for an auction is in progress, its
\* currentBid is the amount of the last of its bids, or its seed value when
\* it has no bids.
C5_CurrentBidIsLastBid ==
    \A k \in DOMAIN auctions :
        (\A r \in Reqs : ~(InCritical(r) /\ req[r].id = k)) =>
            auctions[k].currentBid =
                IF auctions[k].bids = <<>>
                THEN (IF k = "1" THEN 100 ELSE 50)
                ELSE auctions[k].bids[Len(auctions[k].bids)].amount

\* Both auctions are quiet, one still at its seed value and one with two
\* accepted bids.
C5_Witness ==
    /\ \A r \in Reqs : ~InCritical(r)
    /\ \E k, j \in DOMAIN auctions :
          /\ auctions[k].bids = <<>>
          /\ Len(auctions[j].bids) = 2

\* r is a bid by the owner of an auction that exists.
IsOwnerBid(r) ==
    /\ req[r].kind = "bid"
    /\ HasAuction(req[r].id)
    /\ findAuctionById(req[r].id).ownerId = req[r].bidderId

\* r is a bid request that has been answered by its own checks (not by the
\* handler of an unexpected error).
AnsweredBid(r) == req[r].kind = "bid" /\ req[r].sent > 0 /\ ~req[r].threw

\* C6 as stated: every bid by the owner is answered 403, whatever the amount
\* and the status.
C6_OwnerAlways403 ==
    \A r \in Reqs : (IsOwnerBid(r) /\ AnsweredBid(r)) => req[r].status = 403

\* C6, amended: every bid by the owner is rejected, whatever the amount and
\* the status: with 400 when the amount is not a finite positive number,
\* else with 409 when the auction is not active, else with 403.
C6_OwnerRejected ==
    \A r \in Reqs :
        (IsOwnerBid(r) /\ AnsweredBid(r)) =>
            /\ req[r].sent = 1
            /\ req[r].status =
                  IF InvalidAmount(req[r].amount) THEN 400
                  ELSE IF req[r].seenStatus # "active" THEN 409
                  ELSE 403

\* The owner bid a good amount twice: once on the active auction (403) and
\* once after it was notified (409).
C6_Witness ==
    \E r, q \in Reqs :
        /\ IsOwnerBid(r) /\ req[r].seenStatus = "active" /\ req[r].status = 403
        /\ IsOwnerBid(q) /\ req[q].seenStatus = "notified" /\ req[q].status = 409

\* The status the checks give in the order of the claim: absent, not active,
\* owner, bad amount, too low.
ClaimedCode(q) ==
    IF ~HasAuction(q.id) THEN 404
    ELSE IF q.seenStatus # "active" THEN 409
    ELSE IF findAuctionById(q.id).ownerId = q.bidderId THEN 403
    ELSE IF InvalidAmount(q.amount) THEN 400
    ELSE IF q.amount.n <= q.seenBid THEN 409
    ELSE 201

\* The same with the amount test first.
AmountFirstCode(q) ==
    IF InvalidAmount(q.amount) THEN 400
    ELSE IF ~HasAuction(q.id) THEN 404
    ELSE IF q.seenStatus # "active" THEN 409
    ELSE IF findAuctionById(q.id).ownerId = q.bidderId THEN 403
    ELSE IF q.amount.n <= q.seenBid THEN 409
    ELSE 201

\* C7 as stated: the answer to a bid is that of the first failing check in
\* the order absent (404), not active (409), owner (403), bad amount (400),
\* too low (409), and 201 when none fails.
C7_ClaimedOrder ==
    \A r \in Reqs : AnsweredBid(r) => req[r].status = ClaimedCode(req[r])

\* C7, amended: the answer to a bid is that of the first failing check in
\* the order bad amount (400), absent (404), not active (409), owner (403),
\* too low (409); it is 201 only when none fails, and then the bid is in the
\* auction's bids.
C7_AmountFirstOrder ==
    \A r \in Reqs :
        AnsweredBid(r) =>
            /\ req[r].status = AmountFirstCode(req[r])
            /\ req[r].status = 201 =>
                  \E i \in 1..Len(findAuctionById(req[r].id).bids) :
                      findAuctionById(req[r].id).bids[i] =
                          [amount |-> req[r].amount.n,
                           bidderId |-> req[r].bidderId]

\* Bad amounts were answered 400 on the absent auction and for the owner,
\* and a third bid was accepted.
C7_Witness ==
    \E r, q, t \in Reqs :
        /\ req[r].kind = "bid" /\ ~HasAuction(req[r].id)
        /\ InvalidAmount(req[r].amount) /\ req[r].status = 400
        /\ IsOwnerBid(q) /\ InvalidAmount(req[q].amount) /\ req[q].status = 400
        /\ req[t].kind = "bid" /\ req[t].status = 201

\* r is a bid on an auction that exists, and its callback has run its checks.
CheckedBid(r) ==
    /\ req[r].kind = "bid"
    /\ Entered(r)
    /\ ~req[r].threw
    /\ HasAuction(req[r].id)

\* A notify call for the auction of r that was made before r's call and whose
\* callback sets the status.
NotifiedBefore(r) ==
    \E q \in Reqs :
        q < r /\ req[q].kind = "notify" /\ SameLock(q, r) /\ ~req[q].fault

\* C8: only active auctions accept bids.  A bid's callback finds the status
\* notified exactly when a notify call was queued at the lock before it, and
\* then the bid is answered 409; a bid queued before every notify is checked
\* against status active.  Once an auction is notified its currentBid,
\* currentBidderId and bids never change again.
C8_OnlyActiveAcceptsBids ==
    /\ [](\A r \in Reqs :
             CheckedBid(r) =>
                 /\ req[r].seenStatus = "notified" <=> NotifiedBefore(r)
                 /\ req[r].seenStatus = "active" <=> ~NotifiedBefore(r)
                 /\ req[r].seenStatus = "notified" => req[r].status = 409)
    /\ [][\A k \in DOMAIN auctions :
             auctions[k].status = "notified" =>
                 /\ auctions'[k].currentBid = auctions[k].currentBid
                 /\ auctions'[k].currentBidderId = auctions[k].currentBidderId
                 /\ auctions'[k].bids = auctions[k].bids]_vars

\* A bid, a notify and a second bid were queued in this order for one
\* auction: the first bid was accepted, the second, higher one got 409.
C8_Witness ==
    \E r, q, t \in Reqs :
        /\ r < q /\ q < t /\ SameLock(r, q) /\ SameLock(q, t)
        /\ req[q].kind = "notify" /\ req[q].pc = "done" /\ req[q].status = 200
        /\ CheckedBid(r) /\ req[r].status = 201
        /\ CheckedBid(t) /\ req[t].status = 409
        /\ req[t].amount.n > req[t].seenBid
        /\ findAuctionById(req[t].id).currentBid = req[r].amount.n

\* The accepted bids for the auction of r that were queued before r.
AcceptedBefore(r) ==
    {q \in Reqs : q < r /\ SameLock(q, r) /\ req[q].kind = "bid"
                        /\ req[q].status = 201}

\* The currentBid left by the critical sections queued before r.
LeftBid(r) ==
    IF AcceptedBefore(r) = {}
    THEN SeedBid(req[r].id)
    ELSE LET m == CHOOSE q \in AcceptedBefore(r) :
                      \A x \in AcceptedBefore(r) : x <= q
         IN  req[m].amount.n

\* C9: a bid is checked against the currentBid left by the critical sections
\* granted the lock before it (the value before either ran for the first of
\* two bids, the value left by the first for the second); a bid by a
\* non-owner on the active auction is accepted iff its amount is strictly
\* above that value and gets 409 otherwise.  Two bids of the same amount on
\* one auction are never both accepted.
C9_SecondSeesFirst ==
    /\ \A r \in Reqs :
          CheckedBid(r) =>
              /\ req[r].seenBid = LeftBid(r)
              /\ (req[r].seenStatus = "active" /\ ~IsOwnerBid(r)) =>
                    /\ req[r].status = 201 <=> req[r].amount.n > LeftBid(r)
                    /\ req[r].status # 201 => req[r].status = 409
    /\ \A r, q \in Reqs :
          (r # q /\ CheckedBid(r) /\ CheckedBid(q) /\ req[r].id = req[q].id
                /\ req[r].status = 201 /\ req[q].status = 201) =>
              req[r].amount.n # req[q].amount.n

\* Two bids of the same amount by different bidders, queued one behind the
\* other: the first was accepted, the second found the first's amount and
\* got 409.
C9_Witness ==
    \E r, q \in Reqs :
        /\ CheckedBid(r) /\ CheckedBid(q) /\ req[q].prev = r
        /\ req[r].bidderId # req[q].bidderId
        /\ req[r].amount = req[q].amount
        /\ req[r].status = 201 /\ req[r].seenBid = SeedBid(req[r].id)
        /\ req[q].status = 409 /\ req[q].seenBid = req[r].amount.n

\* C10: the currentBidderId of an auction is never its ownerId.
C10_BidderIsNotOwner ==
    \A k \in DOMAIN auctions : auctions[k].currentBidderId # auctions[k].ownerId

\* The owner bid above the current bid of the active auction, which another
\* bidder leads, and was answered 403.
C10_Witness ==
    \E r \in Reqs :
        /\ IsOwnerBid(r) /\ CheckedBid(r) /\ req[r].status = 403
        /\ req[r].amount.n > req[r].seenBid
        /\ findAuctionById(req[r].id).currentBidderId # "null"

\* C11: withAuctionLock hands the outcome of the callback to its caller
\* unchanged, and only once the callback has run under the lock.  Before the
\* callback has run and run() has released, the promise of withAuctionLock
\* is pending; afterwards it is fulfilled with the value the callback
\* returned (`res` from a rejecting bid, undefined from an accepted bid or a
\* notify), or rejected with the error the callback threw.  The promise
\* settles in one step only: the release of a call whose callback has run,
\* and it settles as the callback's promise did.
C11_OutcomePropagated ==
    /\ [](\A r \in Reqs :
            req[r].locked =>
                /\ ~Entered(r) => req[r].fnOut = Pending
                /\ ~PastFinally(r) => req[r].out = Pending
                /\ PastFinally(r) =>
                      /\ req[r].out = req[r].fnOut
                      /\ req[r].threw =>
                            req[r].out = Thrown(IF req[r].fault
                                                THEN "fault" ELSE "TypeError")
                      /\ (~req[r].threw /\ req[r].kind = "bid") =>
                            req[r].out = Returned(IF req[r].status = 201
                                                  THEN "undefined" ELSE "res")
                      /\ (~req[r].threw /\ req[r].kind = "notify") =>
                            req[r].out = Returned("undefined"))
    /\ [][\A r \in Reqs :
            req'[r].out # req[r].out =>
                /\ InCritical(r) /\ req[r].out = Pending
                /\ req[r].fnOut # Pending /\ req'[r].out = req[r].fnOut
                /\ r \in resolved']_vars

\* Three calls have delivered their outcome: an error, the value `res`, and
\* undefined; a fourth outcome is never needed.
C11_Witness ==
    \E r, q, t \in Reqs :
        /\ PastFinally(r) /\ req[r].out = Thrown("fault")
        /\ PastFinally(q) /\ req[q].out = Returned("res")
        /\ PastFinally(t) /\ req[t].out = Returned("undefined")

\* C12: auctions are independent.  A call that waits is held back only by
\* earlier calls for its own id: once each of those is past its release the
\* callback can start, whatever is held or queued on other ids.  And the
\* step in which a bid callback runs leaves every other auction as it was.
C12_Independent ==
    /\ [](\A r \in Reqs :
            (/\ req[r].pc = "waiting"
             /\ \A q \in Reqs : (q < r /\ SameLock(q, r)) => PastFinally(q))
            => ENABLED (EnterBid(r) \/ EnterNotify(r) \/ EnterFault(r)))
    /\ [][\A r \in Reqs :
            (req[r].kind = "bid" /\ req[r].pc = "waiting"
                                /\ req'[r].pc = "running")
            => /\ DOMAIN auctions' = DOMAIN auctions
               /\ \A k \in DOMAIN auctions :
                     k # req[r].id => auctions'[k] = auctions[k]]_vars

\* A callback on auction "1" is in progress with a second call queued behind
\* it, and a bid on auction "2" that arrived after both has been accepted
\* and has completed.
C12_Witness ==
    \E r, t, q \in Reqs :
        /\ r < t /\ t < q
        /\ req[r].id = "1" /\ InCritical(r)
        /\ req[t].id = "1" /\ req[t].pc = "waiting"
        /\ req[q].id = "2" /\ req[q].pc = "done" /\ req[q].status = 201
        /\ auctions["2"].currentBid = req[q].amount.n
        /\ auctions["1"].currentBid = SeedBid("1")

\* C13: the responses of the bid route.  A bid request is answered at most
\* once (a step that sends a response is the first to do so), and exactly
\* once when its handler has ended.  It is answered 201
\* only when every check passed and its bid is in the aggregate; each
\* rejection has its own status (400 invalid amount, 404 no auction, 403
\* owner, 409 not active or not above the current bid); a callback that
\* fails is answered 500, and 500 is sent for nothing else.
C13_OneFixedStatus ==
    /\ [](\A r \in Reqs :
            req[r].kind = "bid" =>
                LET q == req[r] IN
                /\ q.sent <= 1
                /\ q.pc = "done" => q.sent = 1
                /\ q.sent = 1 => q.status \in {201, 400, 403, 404, 409, 500}
                /\ q.status = 201 =>
                      /\ ~InvalidAmount(q.amount)
                      /\ q.id \in DOMAIN auctions
                      /\ q.seenStatus = "active"
                      /\ auctions[q.id].ownerId # q.bidderId
                      /\ q.amount.n > q.seenBid
                      /\ \E i \in DOMAIN auctions[q.id].bids :
                            auctions[q.id].bids[i] =
                                [amount |-> q.amount.n,
                                 bidderId |-> q.bidderId]
                /\ q.sent = 1 => (q.status = 400 <=> InvalidAmount(q.amount))
                /\ q.status = 404 => q.id \notin DOMAIN auctions
                /\ q.status = 403 => auctions[q.id].ownerId = q.bidderId
                /\ q.status = 409 =>
                      (q.seenStatus = "notified" \/ q.amount.n <= q.seenBid)
                /\ q.status = 500 => q.threw
                /\ (q.threw /\ q.pc = "done") => q.status = 500)
    /\ [][\A r \in Reqs :
            (req'[r].kind = "bid" /\ req'[r].sent # req[r].sent) =>
                /\ req[r].sent = 0 /\ req'[r].sent = 1
                /\ req[r].status = 0]_vars

\* Three bid requests have ended: one accepted with 201, one refused with
\* 409, and one whose callback failed, answered 500.
C13_Witness ==
    \E r, q, t \in Reqs :
        /\ req[r].kind = "bid" /\ req[r].pc = "done" /\ req[r].status = 201
        /\ req[q].kind = "bid" /\ req[q].pc = "done" /\ req[q].status = 409
        /\ req[t].kind = "bid" /\ req[t].pc = "done" /\ req[t].threw
        /\ req[t].status = 500 /\ req[t].sent = 1

\* C14: the callback works on a lookup made when it starts.  In the step in
\* which a waiting callback starts, the currentBid and status it is decided
\* on are those the registry holds at that moment, after every critical
\* section that ran before it: a bid is answered 201 exactly when that
\* aggregate is active, not the bidder's own, and below the amount, and a
\* bid on an id with no aggregate at that moment is answered 404.
C14_FreshRead ==
    [][\A r \in Reqs :
          (req[r].pc = "waiting" /\ req'[r].pc = "running" /\ ~req'[r].threw)
          => IF req[r].id \in DOMAIN auctions
             THEN LET a == auctions[req[r].id] IN
                  /\ req'[r].seenBid = a.currentBid
                  /\ req'[r].seenStatus = a.status
                  /\ req[r].kind = "bid" =>
                        /\ req'[r].status # 404
                        /\ req'[r].status = 201 <=>
                              /\ a.status = "active"
                              /\ a.ownerId # req[r].bidderId
                              /\ req[r].amount.n > a.currentBid
             ELSE req[r].kind = "bid" /\ req'[r].status = 404]_vars

\* Three calls for one auction queued one behind the other: an accepted
\* bid, a notify, and a bid above the seed value.  The last has been decided
\* on what the two before it left: the raised current bid and the status
\* notified.
C14_Witness ==
    \E q, t, r \in Reqs :
        /\ req[q].kind = "bid" /\ req[q].status = 201
        /\ req[t].kind = "notify" /\ req[t].prev = q
        /\ req[r].kind = "bid" /\ req[r].prev = t /\ Entered(r)
        /\ req[r].seenBid = req[q].amount.n
        /\ req[r].seenStatus = "notified"
        /\ req[r].status = 409
        /\ req[r].amount.n > SeedBid(req[r].id)

\* C15: no starvation.  The callbacks of the two routes always terminate, so
\* every call that waits at `await prev` eventually starts its callback and
\* eventually is past its release and ended, whatever arrives after it.
C15_NoStarvation ==
    \A r \in Reqs :
        /\ (req[r].pc = "waiting") ~> InCritical(r)
        /\ InCritical(r) ~> (req[r].pc = "done" /\ PastFinally(r))

\* A call that was queued behind another, with a third call for the same
\* auction queued behind it, has run and ended.
C15_Witness ==
    \E p, r, t \in Reqs :
        /\ req[r].locked /\ req[r].prev = p
        /\ req[t].locked /\ req[t].prev = r
        /\ req[r].pc = "done"
        /\ req[t].pc = "waiting"

\* A direct call whose callback takes the lock of its own id again.
Reentrant(r) == req[r].kind = "call" /\ req[r].innerId = req[r].id

\* C16: no re-entrancy.  A call whose callback calls withAuctionLock for the
\* same id and awaits it never gets further than that await: neither its
\* inner nor its outer run() is ever released, and every call for that id
\* that arrived after it stays at `await prev`.  A waiting call for an id
\* that no re-entrant call has touched still runs and ends.
C16_ReentrantDeadlock ==
    /\ [](\A r \in Reqs :
            Reentrant(r) =>
                /\ req[r].pc \in {"waiting", "nested"}
                /\ r \notin resolved /\ releases[r] = 0
                /\ InnerP(r) \notin resolved
                /\ \A q \in Reqs :
                      (q > r /\ SameLock(q, r)) => req[q].pc = "waiting")
    /\ \A q \in Reqs :
          (/\ req[q].pc = "waiting"
           /\ \A r \in Reqs :
                 Reentrant(r) => req[r].id \notin {req[q].id, req[q].innerId})
          ~> (req[q].pc = "done")

\* A re-entrant callback is stuck at its inner call, a bid for the same
\* auction that arrived after it waits, and a call for another auction that
\* arrived later still has ended.
C16_Witness ==
    \E r, q, t \in Reqs :
        /\ r < q /\ q < t
        /\ Reentrant(r) /\ req[r].pc = "nested" /\ req[r].innerPrev = r
        /\ req[q].kind = "bid" /\ SameLock(q, r) /\ req[q].pc = "waiting"
        /\ req[t].locked /\ req[t].id # req[r].id /\ req[t].pc = "done"

\* The auction number a call is for, read off the id as the caller gave it
\* (a route always gives the string of the URL).
Denoted(r) ==
    LET Value(t) == CASE t = "1" -> 1 [] t = "2" -> 2 [] t = "99" -> 99
    IN  IF req[r].kind = "call" /\ req[r].given.type = "number"
        THEN req[r].given.n
        ELSE Value(req[r].id)

\* r holds the lock it asked for: its callback has started and its run() is
\* not past the finally.
Holding(r) == req[r].locked /\ req[r].pc \in {"running", "nested", "inner"}

\* C18: one mutex per identifier.  The lock stored under a key is never
\* removed and never replaced by a new one (a new lock would show the
\* constructor's promise again): its chain only grows by a promise that is
\* still pending.  So two calls for the same auction never hold its lock
\* together, whether the auction was named by number or by string, whether
\* the lock was seeded, created by the first of two calls, or met by a later
\* insertAuction; and an inner call never holds a lock that another call
\* holds.
C18_OneMutexPerId ==
    /\ [][\A k \in DOMAIN locks :
            /\ k \in DOMAIN locks'
            /\ locks'[k] # locks[k] =>
                  (locks'[k] # InitP /\ locks'[k] \notin resolved')]_vars
    /\ [](\A r, q \in Reqs :
            (r # q /\ Holding(r)) =>
                /\ Holding(q) => Denoted(r) # Denoted(q)
                /\ req[q].pc = "inner" => req[q].innerId # req[r].id)

\* Auction 99 has no lock at the start.  A call naming it by the number 99
\* and a bid naming it by the string "99" have both arrived: one holds the
\* lock the first of them created, the other is queued directly behind it,
\* and an insertAuction for 99 that came after both has left that chain in
\* place.
C18_Witness ==
    \E r, q, t \in Reqs :
        /\ r # q /\ t > r /\ t > q
        /\ {req[r].kind, req[q].kind} = {"call", "bid"}
        /\ Denoted(r) = 99 /\ Denoted(q) = 99
        /\ {req[r].given, req[q].given} = {NumId(99), NoId}
        /\ Holding(r) /\ req[r].prev = InitP
        /\ req[q].pc = "waiting" /\ req[q].prev = r
        /\ req[t].kind = "insert" /\ req[t].pc = "done"
        /\ "99" \in DOMAIN auctions /\ locks["99"] = q

\* C17: the status of an auction goes one way.  No step removes an auction
\* or takes a notified auction back to active; a step that changes a status
\* sets it to notified and is the start of a notify callback for that
\* auction, which then holds the auction's lock alone; and a step of a bid
\* request changes no status.
C17_StatusOneWay ==
    [][\A k \in DOMAIN auctions :
          /\ k \in DOMAIN auctions'
          /\ auctions[k].status = "notified" =>
                auctions'[k].status = "notified"
          /\ auctions'[k].status # auctions[k].status =>
                /\ auctions'[k].status = "notified"
                /\ \E r \in Reqs :
                      /\ req[r].kind = "notify" /\ req[r].id = k
                      /\ req[r].pc = "waiting" /\ req'[r].pc = "running"
                      /\ \A q \in Reqs :
                            (q # r /\ req[q].id = k) => req'[q].pc # "running"
          /\ (\E r \in Reqs : req[r].kind = "bid" /\ req'[r] # req[r]) =>
                auctions'[k].status = auctions[k].status]_vars

\* Auction "1" has been notified twice, both notifies answered 200, a bid
\* queued behind the first notify has been refused, and the status is
\* notified.
C17_Witness ==
    \E r, q, t \in Reqs :
        /\ r # t
        /\ req[r].kind = "notify" /\ req[r].id = "1" /\ req[r].status = 200
        /\ req[t].kind = "notify" /\ req[t].id = "1" /\ req[t].status = 200
        /\ req[q].kind = "bid" /\ req[q].id = "1" /\ req[q].status = 409
        /\ req[q].seenStatus = "notified"
        /\ auctions["1"].status = "notified"

\* C19: a rejected bid changes nothing.  The step in which a bid request is
\* answered 400, 403, 404 or 409 (its whole critical section, or for 400 the
\* test before the lock) leaves the registry of auctions as it was: the same
\* ids, and for every id the same aggregate.
C19_RejectedBidNoEffect ==
    [][\A r \in Reqs :
          (/\ req[r].kind = "bid" \/ req'[r].kind = "bid"
           /\ req'[r].sent > req[r].sent
           /\ req'[r].status \in {400, 403, 404, 409})
          => auctions' = auctions]_vars

\* Three bids have been refused, one for an id with no auction (404), one by
\* the owner (403) and one at the current bid (409); the registry is as the
\* constructor left it, and the absent id has got a lock but no auction.
C19_Witness ==
    \E r, q, t \in Reqs :
        /\ req[r].kind = "bid" /\ req[r].pc = "done" /\ req[r].status = 404
        /\ req[q].kind = "bid" /\ req[q].pc = "done" /\ req[q].status = 403
        /\ req[t].kind = "bid" /\ req[t].pc = "done" /\ req[t].status = 409
        /\ auctions = InMemoryDB.auctions
        /\ req[r].id \in DOMAIN locks /\ req[r].id \notin DOMAIN auctions

\* The requests that have arrived for auction k.
On(k) == {r \in Reqs : req[r].pc # "idle" /\ req[r].id = k}

\* Everything that has arrived for auction k is a bid by a non-owner with a
\* valid amount whose callback did not fail, and all of them have ended (so
\* no notify has arrived for k, and k is still active).
AllBidsEnded(k) ==
    /\ On(k) # {}
    /\ \A r \in On(k) :
          /\ req[r].kind = "bid" /\ req[r].pc = "done"
          /\ ~InvalidAmount(req[r].amount) /\ ~req[r].threw
          /\ req[r].bidderId # auctions[k].ownerId

\* The largest of the seed value of k and the amounts submitted for k.
MaxSubmitted(k) ==
    LET S == {SeedBid(k)} \cup {req[r].amount.n : r \in On(k)}
    IN  CHOOSE m \in S : \A x \in S : x <= m

\* The current bidder of k is the bidder of an accepted bid at the current
\* bid.
BidderOfAccepted(k) ==
    \E r \in On(k) :
        /\ req[r].status = 201
        /\ req[r].amount.n = auctions[k].currentBid
        /\ req[r].bidderId = auctions[k].currentBidderId

\* C20 as claimed: once all bids of such a set have ended, currentBid is the
\* largest of the seed value and the amounts, and currentBidderId is the
\* bidder of an accepted bid with that amount.
C20_NoLostUpdateAsClaimed ==
    \A k \in DOMAIN auctions :
        AllBidsEnded(k) =>
            /\ auctions[k].currentBid = MaxSubmitted(k)
            /\ BidderOfAccepted(k)

\* C20, amended: no lost update.  Once all bids of such a set have ended,
\* currentBid is the largest of the seed value and the submitted amounts,
\* whatever the order in which the bids got the lock.  When some amount is
\* above the seed value, currentBidderId is the bidder of an accepted bid
\* with that amount; when none is, no bid was accepted and currentBidderId
\* and bids are as seeded.
C20_NoLostUpdate ==
    \A k \in DOMAIN auctions :
        AllBidsEnded(k) =>
            /\ auctions[k].currentBid = MaxSubmitted(k)
            /\ IF \E r \in On(k) : req[r].amount.n > SeedBid(k)
               THEN BidderOfAccepted(k)
               ELSE /\ auctions[k].currentBidderId = "null"
                    /\ auctions[k].bids = <<>>
                    /\ \A r \in On(k) : req[r].status = 409

\* Three bids for auction "1" have ended, the largest amount arrived first:
\* it was accepted, a lower one after it was refused, and so was a second
\* bidder's bid at the same amount; the current bid is that largest amount
\* and the current bidder the one whose bid was accepted.
C20_Witness ==
    \E r, q, t \in Reqs :
        /\ r < q /\ r < t /\ q # t /\ On("1") = {r, q, t}
        /\ AllBidsEnded("1")
        /\ req[r].status = 201 /\ req[r].amount.n = MaxSubmitted("1")
        /\ req[q].status = 409 /\ req[q].amount.n < req[r].amount.n
        /\ req[q].amount.n > SeedBid("1")
        /\ req[t].status = 409 /\ req[t].amount.n = req[r].amount.n
        /\ req[t].bidderId # req[r].bidderId
        /\ auctions["1"].currentBidderId = req[r].bidderId

=============================================================================
